---- MODULE Spec2Model ----
(***************************************************************************)
(* Retina CNN: the training script (backend/train_cnn.py) and the two      *)
(* inference servers (retina_cnn-main/backend/main.py and app.py).         *)
(*                                                                         *)
(* Probabilities are fixed-point numbers in units of 10^-5 (PScale), the   *)
(* "confidence" field of a response is in units of 10^-4 (four decimals).  *)
(* Class indices are 1-based here (index i here is index i-1 in Python).   *)
(* The convolutional network itself is not computed: an uploaded image is  *)
(* identified with the probability vector softmax(model(image)) it yields  *)
(* under the loaded parameters in eval mode. The program's probabilities   *)
(* are float32 values widened to Python floats; comparing and rounding     *)
(* them is exact on the values, which is what the fixed-point numbers do.  *)
(***************************************************************************)
EXTENDS Integers, Sequences, FiniteSets, TLC

\* ------------------------------------------------------------------ bounds
\* widest checkpoint / largest class directory considered
MaxWidth == 4
\* number of concurrent POST /predict requests
MaxRequests == 2
\* largest number of batches of a training epoch
MaxBatches == 2

\* ------------------------------------------------------- program constants
BATCH_SIZE == 32
NUM_EPOCHS == 10
NUM_CLASSES == 4
\* confidence_threshold = 0.65, in units of 10^-5
confidence_threshold == 65000
\* k of torch.topk is min(3, len(CLASS_NAMES))
TopKLimit == 3

PScale == 10 ^ 5

NoFile == [width |-> 0, classes |-> <<>>, steps |-> 0, origin |-> "none"]
NoModel == [width |-> 0, ckptWidth |-> 0, params |-> 0, evalMode |-> FALSE,
            trainedClasses |-> <<>>, origin |-> "none"]

\* ------------------------------------------------------- class directories
\* Sub-directory names, with their rank in Python's string order
\* ("amd" < "cataract" < "diabetic-retinopathy" < "dr" < "glaucoma" < "normal").
LexRank ==
  [n \in {"amd", "cataract", "diabetic-retinopathy", "dr", "glaucoma", "normal"} |->
     CASE n = "amd" -> 1
       [] n = "cataract" -> 2
       [] n = "diabetic-retinopathy" -> 3
       [] n = "dr" -> 4
       [] n = "glaucoma" -> 5
       [] n = "normal" -> 6]

\* sorted(names): the names of a directory listing in ascending string order
RECURSIVE SortedNames(_)
SortedNames(S) ==
  IF S = {} THEN <<>>
  ELSE LET first == CHOOSE n \in S : \A m \in S : LexRank[n] <= LexRank[m]
       IN  <<first>> \o SortedNames(S \ {first})

\* Directory layouts (sets of immediate sub-directories) that are tried.
DirLayouts ==
  { {},
    {"normal"},
    {"cataract", "normal"},
    {"cataract", "glaucoma", "normal"},
    {"cataract", "diabetic-retinopathy", "glaucoma", "normal"},
    {"amd", "cataract", "glaucoma", "normal"},
    {"amd", "cataract", "dr", "glaucoma", "normal"} }

FallbackNames == <<"cataract", "diabetic-retinopathy", "glaucoma", "normal">>

Min(a, b) == IF a <= b THEN a ELSE b

VARIABLES
  \* ---- train_cnn.py
  tpc,         \* position of the training script
  classes,     \* dataset.classes
  nImages,     \* len(dataset)
  epoch,       \* completed epochs
  batch,       \* batches of the current epoch already processed
  tparams,     \* number of optimizer steps the parameters have received
  tmode,       \* model.training
  grad,        \* the .grad buffers: set of <<epoch, batch, parameter version>>
  outputs,     \* parameter version the current outputs were computed with (-1: none)
  loss,        \* parameter version the current loss was computed with (-1: none)
  total,       \* samples counted in this epoch
  applied,     \* the gradient buffers the last optimizer step consumed
  saves,       \* number of torch.save calls
  \* ---- model.pth
  checkpoint,
  \* ---- main.py / app.py
  server,      \* which server module runs: "none", "main", "app"
  spc,         \* "off", "registry", "ready", "crashed"
  topkTie,     \* order torch.topk leaves equal values in (fixed by the build)
  CLASS_NAMES,
  model,
  rpc,         \* per request: "idle", "reading", "done"
  rimg,        \* per request: the uploaded image
  resp,        \* per request: the response
  now,         \* clock read by datetime.now()
  lastStatus   \* last answer of GET /status or /health

tvars == <<tpc, classes, nImages, epoch, batch, tparams, tmode, grad, outputs, loss,
           total, applied, saves>>
svars == <<server, spc, topkTie, CLASS_NAMES, model, rpc, rimg, resp, now, lastStatus>>
vars == <<tvars, checkpoint, svars>>

\* ============================================================ train_cnn.py

\* len(train_loader): ceil(len(dataset) / BATCH_SIZE)
NumBatches == (nImages + BATCH_SIZE - 1) \div BATCH_SIZE

\* labels.size(0) of batch b (0-based) of an epoch
BatchSize(b) == Min(BATCH_SIZE, nImages - b * BATCH_SIZE)

DatasetSizes ==
  {1} \cup { b * BATCH_SIZE : b \in 1..MaxBatches }
      \cup { b * BATCH_SIZE + 1 : b \in 1..(MaxBatches - 1) }

\* datasets.ImageFolder(DATA_DIR), DataLoader, RetinaCNN(NUM_CLASSES), Adam.
\* ImageFolder raises when there is no class folder or a class folder holds no
\* image, so a dataset that loads has at least one image per class.
LoadDataset ==
  /\ tpc = "start"
  /\ \E d \in DirLayouts, n \in DatasetSizes \cup {0} :
       IF d = {} \/ n < Cardinality(d)
       THEN /\ tpc' = "crashed"
            /\ UNCHANGED <<classes, nImages>>
       ELSE /\ classes' = SortedNames(d)
            /\ nImages' = n
            /\ tpc' = "epoch_begin"
  /\ UNCHANGED <<epoch, batch, tparams, tmode, grad, outputs, loss, total, applied,
                 saves, checkpoint, svars>>

\* for epoch in range(NUM_EPOCHS): model.train(); running counters reset
EpochBegin ==
  /\ tpc = "epoch_begin"
  /\ IF epoch < NUM_EPOCHS
     THEN /\ tmode' = TRUE
          /\ total' = 0
          /\ batch' = 0
          /\ tpc' = "next_batch"
     ELSE /\ tpc' = "save"
          /\ UNCHANGED <<tmode, total, batch>>
  /\ UNCHANGED <<classes, nImages, epoch, tparams, grad, outputs, loss, applied,
                 saves, checkpoint, svars>>

\* for images, labels in train_loader: the loader yields the next batch or ends
NextBatch ==
  /\ tpc = "next_batch"
  /\ tpc' = IF batch < NumBatches THEN "zero_grad" ELSE "epoch_end"
  /\ UNCHANGED <<classes, nImages, epoch, batch, tparams, tmode, grad, outputs, loss,
                 total, applied, saves, checkpoint, svars>>

\* optimizer.zero_grad(): the buffers after the call
ZeroedGrad(g) == {}

ZeroGrad ==
  /\ tpc = "zero_grad"
  /\ grad' = ZeroedGrad(grad)
  /\ tpc' = "forward"
  /\ UNCHANGED <<classes, nImages, epoch, batch, tparams, tmode, outputs, loss, total,
                 applied, saves, checkpoint, svars>>

\* outputs = model(images)
Forward ==
  /\ tpc = "forward"
  /\ outputs' = tparams
  /\ tpc' = "loss"
  /\ UNCHANGED <<classes, nImages, epoch, batch, tparams, tmode, grad, loss, total,
                 applied, saves, checkpoint, svars>>

\* loss = criterion(outputs, labels). The labels are the indices of dataset.classes and
\* the outputs have NUM_CLASSES columns: CrossEntropyLoss raises ("Target is out of
\* bounds") on the first batch that holds a label >= NUM_CLASSES. The shuffle decides
\* which batch that is; every class has an image, so it is a batch of the first epoch.
LabelOutOfRange == Len(classes) > NUM_CLASSES

Loss ==
  /\ tpc = "loss"
  /\ \/ /\ ~LabelOutOfRange \/ (epoch = 0 /\ batch + 1 < NumBatches)
        /\ loss' = outputs
        /\ tpc' = "backward"
     \/ /\ LabelOutOfRange
        /\ tpc' = "crashed"
        /\ UNCHANGED loss
  /\ UNCHANGED <<classes, nImages, epoch, batch, tparams, tmode, grad, outputs, total,
                 applied, saves, checkpoint, svars>>

\* loss.backward(): gradients are accumulated into the buffers
Backward ==
  /\ tpc = "backward"
  /\ grad' = grad \cup {<<epoch, batch, loss>>}
  /\ tpc' = "step"
  /\ UNCHANGED <<classes, nImages, epoch, batch, tparams, tmode, outputs, loss, total,
                 applied, saves, checkpoint, svars>>

\* optimizer.step(), then the running metrics of the batch (the sums of loss values
\* and of correct predictions are numbers of the network and are left out)
OptimizerStep ==
  /\ tpc = "step"
  /\ tparams' = tparams + 1
  /\ applied' = grad
  /\ total' = total + BatchSize(batch)
  /\ batch' = batch + 1
  /\ tpc' = "next_batch"
  /\ UNCHANGED <<classes, nImages, epoch, tmode, grad, outputs, loss, saves,
                 checkpoint, svars>>

\* epoch_loss, epoch_acc, print
EpochEnd ==
  /\ tpc = "epoch_end"
  /\ epoch' = epoch + 1
  /\ tpc' = "epoch_begin"
  /\ UNCHANGED <<classes, nImages, batch, tparams, tmode, grad, outputs, loss, total,
                 applied, saves, checkpoint, svars>>

\* torch.save(model.state_dict(), MODEL_PATH)
SaveModel ==
  /\ tpc = "save"
  /\ checkpoint' = [width |-> NUM_CLASSES, classes |-> classes, steps |-> tparams,
                    origin |-> "trainer"]
  /\ saves' = saves + 1
  /\ tpc' = "done"
  /\ UNCHANGED <<classes, nImages, epoch, batch, tparams, tmode, grad, outputs, loss,
                 total, applied, svars>>

TrainNext ==
  \/ LoadDataset
  \/ EpochBegin
  \/ NextBatch
  \/ ZeroGrad
  \/ Forward
  \/ Loss
  \/ Backward
  \/ OptimizerStep
  \/ EpochEnd
  \/ SaveModel

TrainInit ==
  /\ tpc = "start"
  /\ classes = <<>>
  /\ nImages = 0
  /\ epoch = 0
  /\ batch = 0
  /\ tparams = 0
  /\ tmode = FALSE
  /\ grad = {}
  /\ outputs = -1
  /\ loss = -1
  /\ total = 0
  /\ applied = {}
  /\ saves = 0

ServerOff ==
  /\ server = "none"
  /\ spc = "off"
  /\ topkTie = "none"
  /\ CLASS_NAMES = <<>>
  /\ model = NoModel
  /\ rpc = [c \in 1..MaxRequests |-> "idle"]
  /\ rimg = [c \in 1..MaxRequests |-> <<>>]
  /\ resp = [c \in 1..MaxRequests |-> [status |-> 0]]
  /\ now = 0
  /\ lastStatus = [status |-> "none"]

InitTrain == TrainInit /\ checkpoint = NoFile /\ ServerOff

SpecTrain == InitTrain /\ [][TrainNext]_vars

\* =================================================== main.py / app.py: start-up

\* DATASET_DIR as the server finds it: absent, or holding sub-directories
DatasetDirs ==
  {[exists |-> FALSE, subdirs |-> {}]} \cup
  {[exists |-> TRUE, subdirs |-> d] : d \in DirLayouts}

\* CLASS_NAMES: the sorted sub-directories of DATASET_DIR, or the fixed four labels
Registry(dir) == IF dir.exists THEN SortedNames(dir.subdirs) ELSE FallbackNames

\* torch.topk does not say in which order it returns equal values; the kernel is
\* deterministic, so one build always answers the same way. (The CPU kernel selects
\* with std::nth_element and std::sort on (value, index) pairs compared by value only:
\* for [0.5, 0.5, 0, 0] it returns the indices [1, 0, 3].)
TieOrders == {"index_asc", "index_desc"}

\* The module is imported: CLASS_NAMES is built from the directory listing.
ServerStart ==
  /\ spc = "off"
  /\ \E s \in {"main", "app"}, t \in TieOrders, dir \in DatasetDirs :
       /\ server' = s
       /\ topkTie' = t
       /\ CLASS_NAMES' = Registry(dir)
  /\ spc' = "registry"
  /\ UNCHANGED <<tvars, checkpoint, model, rpc, rimg, resp, now, lastStatus>>

\* load_state_dict (strict): every tensor of the checkpoint must have the shape of the
\* model's tensor; fc2 is [n, 256], so the widths must agree.
CheckpointFitsAny(ck, n) == TRUE
CheckpointFits(ck, n) == ck.width = n

\* model = RetinaCNN(len(CLASS_NAMES)); load_state_dict; model.eval()
LoadedModelNoEval(ck, n) ==
  [width |-> n, ckptWidth |-> ck.width, params |-> ck.steps, evalMode |-> FALSE,
   trainedClasses |-> ck.classes, origin |-> ck.origin]
LoadedModel(ck, n) ==
  [width |-> n, ckptWidth |-> ck.width, params |-> ck.steps, evalMode |-> TRUE,
   trainedClasses |-> ck.classes, origin |-> ck.origin]

\* torch.load raises when model.pth is missing, load_state_dict on a size mismatch:
\* the import fails and no route is ever served.
ServerLoadModel ==
  /\ spc = "registry"
  /\ IF checkpoint # NoFile /\ CheckpointFits(checkpoint, Len(CLASS_NAMES))
     THEN /\ model' = LoadedModel(checkpoint, Len(CLASS_NAMES))
          /\ spc' = "ready"
     ELSE /\ spc' = "crashed"
          /\ UNCHANGED model
  /\ UNCHANGED <<tvars, checkpoint, server, topkTie, CLASS_NAMES, rpc, rimg, resp, now,
                 lastStatus>>

\* GET /status (app.py), GET /health (main.py)
StatusProbe ==
  /\ spc = "ready"
  /\ lastStatus' = IF server = "app"
                   THEN [status |-> "ready", classes |-> CLASS_NAMES]
                   ELSE [status |-> "ok", classes |-> CLASS_NAMES]
  /\ UNCHANGED <<tvars, checkpoint, server, spc, topkTie, CLASS_NAMES, model, rpc, rimg,
                 resp, now>>

\* ================================================ probability vectors (images)

RECURSIVE SumSeq(_)
SumSeq(s) == IF s = <<>> THEN 0 ELSE Head(s) + SumSeq(Tail(s))

Levels == {0, 8000, 10000, 12000, 15000, 25000, 35000, 35004, 40000, 50000,
           64996, 65000, 70000, PScale}

\* softmax outputs over n classes: entries in [0, 1] that sum to 1
ProbVecs ==
  [n \in 1..MaxWidth |-> { v \in [1..n -> Levels] : SumSeq(v) = PScale }]

\* the few images the concurrent clients upload
FewLevels == {0, 35004, 50000, 64996, PScale}
FewVecs ==
  [n \in 1..MaxWidth |->
     { v \in [1..n -> FewLevels] : /\ SumSeq(v) = PScale
                                   /\ \A i \in 1..(n - 1) : v[i] >= v[i + 1] }]

\* an upload PIL cannot decode
BadImage == <<>>

\* ======================================================= the decision policy

\* probs.argmax(): the index of the first maximal value
ArgMax(p) ==
  CHOOSE i \in 1..Len(p) : /\ \A j \in 1..Len(p) : p[j] <= p[i]
                           /\ \A j \in 1..(i - 1) : p[j] < p[i]

\* torch.topk(probs, k): the k largest values, largest first, equal values in the
\* order the kernel leaves them
Before(p, i, j) ==
  \/ p[i] > p[j]
  \/ p[i] = p[j] /\ (IF topkTie = "index_asc" THEN i < j ELSE i > j)

RECURSIVE TopKFrom(_, _, _)
TopKFrom(p, rest, k) ==
  IF k = 0 \/ rest = {} THEN <<>>
  ELSE LET b == CHOOSE i \in rest : \A j \in rest \ {i} : Before(p, i, j)
       IN  <<b>> \o TopKFrom(p, rest \ {b}, k - 1)

TopK(p, k) == TopKFrom(p, 1..Len(p), k)

\* round(confidence, 4): nearest multiple of 10^-4, an exact tie to the even one
Round4(c) ==
  LET q == c \div 10
      r == c % 10
  IN  IF r < 5 THEN q
      ELSE IF r > 5 THEN q + 1
      ELSE IF q % 2 = 0 THEN q ELSE q + 1

\* if confidence < confidence_threshold
IsUncertainLE(confidence) == confidence <= confidence_threshold
IsUncertainPercent(confidence) == confidence < confidence_threshold * 100
IsUncertain(confidence) == confidence < confidence_threshold

\* main.py predict, from the softmax output to the JSON response
MainPredict(filename, probs, ts) ==
  LET top_idx == ArgMax(probs)
      confidence == probs[top_idx]
      label == CLASS_NAMES[top_idx]
      top_idxs == TopK(probs, Min(TopKLimit, Len(CLASS_NAMES)))
      top_predictions ==
        [j \in 1..Len(top_idxs) |->
           [class |-> CLASS_NAMES[top_idxs[j]], confidence |-> probs[top_idxs[j]]]]
      uncertain == IsUncertain(confidence)
  IN  [status |-> 200,
       body |-> [filename |-> filename,
                 prediction |-> IF uncertain THEN "uncertain" ELSE label,
                 confidence |-> Round4(confidence),
                 top_predictions |-> top_predictions,
                 message |-> IF uncertain
                             THEN [text |-> "not a recognizable retina pattern",
                                   label |-> "", percent |-> 0]
                             ELSE [text |-> "Detected", label |-> label,
                                   percent |-> Round4(confidence)],
                 timestamp |-> ts]]

\* main.py: except Exception as e: JSONResponse({"error": str(e)}, status_code=500)
MainError == [status |-> 500, body |-> [error |-> "cannot identify image file"]]

\* app.py predict, from the softmax output to the JSON response
AppPredict(filename, probs, ts) ==
  LET top_idx == ArgMax(probs)
  IN  [status |-> 200,
       body |-> [filename |-> filename,
                 prediction |-> CLASS_NAMES[top_idx],
                 confidence |-> Round4(probs[top_idx]),
                 timestamp |-> ts]]

\* app.py has no handler around the body: the exception reaches the framework, which
\* answers 500 with the plain text "Internal Server Error"
AppError == [status |-> 500, body |-> [text |-> "Internal Server Error"]]

\* outputs = model(tensor); softmax. In eval mode dropout is off and the output is
\* the image's vector; in train mode the dropout mask makes it any vector.
ForwardOutputs(img) == IF model.evalMode THEN {img} ELSE ProbVecs[model.width]

\* The whole answer of one handler to one upload.
Answer(c, img, probs, ts) ==
  IF server = "main"
  THEN IF img = BadImage THEN MainError ELSE MainPredict(c, probs, ts)
  ELSE IF img = BadImage THEN AppError ELSE AppPredict(c, probs, ts)

\* POST /predict arrives; the handler is suspended in "await file.read()"
Receive(c, imgs) ==
  /\ spc = "ready"
  /\ rpc[c] = "idle"
  /\ \E img \in imgs \cup {BadImage} : rimg' = [rimg EXCEPT ![c] = img]
  /\ rpc' = [rpc EXCEPT ![c] = "reading"]
  /\ UNCHANGED <<tvars, checkpoint, server, spc, topkTie, CLASS_NAMES, model, resp, now,
                 lastStatus>>

\* The rest of the handler runs on the event loop without another await.
Handle(c) ==
  /\ spc = "ready"
  /\ rpc[c] = "reading"
  /\ \E probs \in (IF rimg[c] = BadImage THEN {BadImage} ELSE ForwardOutputs(rimg[c])) :
       resp' = [resp EXCEPT ![c] = Answer(c, rimg[c], probs, now)]
  /\ rpc' = [rpc EXCEPT ![c] = "done"]
  /\ now' = now + 1
  /\ UNCHANGED <<tvars, checkpoint, server, spc, topkTie, CLASS_NAMES, model, rimg,
                 lastStatus>>

ServeNext ==
  \/ ServerStart
  \/ ServerLoadModel
  \/ StatusProbe
  \/ \E c \in 1..MaxRequests : Receive(c, FewVecs[model.width])
  \/ \E c \in 1..MaxRequests : Handle(c)

PolicyNext ==
  \/ ServerStart
  \/ ServerLoadModel
  \/ StatusProbe
  \/ Receive(1, ProbVecs[model.width])
  \/ Handle(1)

\* model.pth as deployed beside the server: missing, or a checkpoint of some width
DeployedCheckpoints ==
  {NoFile} \cup
  { [width |-> w, classes |-> <<>>, steps |-> 1, origin |-> "deployed"] : w \in 1..MaxWidth }

InitServe == TrainInit /\ checkpoint \in DeployedCheckpoints /\ ServerOff

SpecServe == InitServe /\ [][ServeNext]_vars

SpecPolicy == InitServe /\ [][PolicyNext]_vars

\* the training run, then a server started beside its model.pth
Next ==
  \/ TrainNext
  \/ tpc = "done" /\ ServeNext

Spec == InitTrain /\ [][Next]_vars

\* ===================================================================== claims

Requests == 1..MaxRequests

\* a request that main.py answered with a prediction
MainAnswered(c) == server = "main" /\ rpc[c] = "done" /\ resp[c].status = 200

\* the largest entry of a probability vector, and the first index that holds it
MaxProb(p) == CHOOSE v \in {p[i] : i \in 1..Len(p)} : \A i \in 1..Len(p) : p[i] <= v
FirstIndexOf(p, v) == CHOOSE i \in 1..Len(p) : p[i] = v /\ \A j \in 1..(i - 1) : p[j] # v

\* the class index a label of the registry stands for
IndexOfLabel(l) == CHOOSE i \in 1..Len(CLASS_NAMES) : CLASS_NAMES[i] = l

\* the threshold in the unit of the confidence field (10^-4)
ThresholdAsReported == confidence_threshold \div 10

\* C1: main.py reports "uncertain" exactly when the top probability is strictly below
\* 0.65, and otherwise the registry label at the arg-max index; a top probability of
\* exactly 0.65 is reported with its label.
C1_ConfidenceGate ==
  \A c \in Requests :
    MainAnswered(c) =>
      LET top == MaxProb(rimg[c])
      IN  /\ (resp[c].body.prediction = "uncertain") <=> (top < confidence_threshold)
          /\ top >= confidence_threshold =>
               resp[c].body.prediction = CLASS_NAMES[FirstIndexOf(rimg[c], top)]

\* C1 witness: a top probability of exactly 0.65 answered with a class label
C1_Witness ==
  \E c \in Requests :
    /\ MainAnswered(c)
    /\ MaxProb(rimg[c]) = confidence_threshold
    /\ resp[c].body.prediction # "uncertain"

SixFields == {"filename", "prediction", "confidence", "top_predictions", "message",
              "timestamp"}

\* C2: every successful POST /predict response, of app.py as of main.py, carries the six
\* fields and a confidence-gated prediction (never a class label below 0.65).
C2_FullResultFromBothServers ==
  \A c \in Requests :
    (rpc[c] = "done" /\ resp[c].status = 200) =>
      /\ DOMAIN resp[c].body = SixFields
      /\ MaxProb(rimg[c]) < confidence_threshold => resp[c].body.prediction = "uncertain"

\* C3: on both servers an upload that cannot be decoded is answered with status 500 and
\* a body {error: description}; the loaded model, the eval mode and the registry stay as
\* loaded, the process keeps serving, and every valid request is answered as if the
\* failing one had never been made.
C3_FailuresIsolated ==
  \A c \in Requests :
    rpc[c] = "done" =>
      /\ spc = "ready"
      /\ model.evalMode /\ model.params = checkpoint.steps
      /\ model.width = Len(CLASS_NAMES)
      /\ rimg[c] = BadImage => (resp[c].status = 500 /\ DOMAIN resp[c].body = {"error"})
      /\ rimg[c] # BadImage =>
           resp[c] = Answer(c, rimg[c], rimg[c], resp[c].body.timestamp)

\* C4: the service is ready, and answers /status, /health or /predict, only with a
\* loaded checkpoint whose output width is the registry length; with differing widths
\* the load fails, nothing is loaded into the model, and the service is never ready.
C4_StartupGate ==
  /\ spc = "ready" =>
       /\ checkpoint # NoFile
       /\ model.ckptWidth = Len(CLASS_NAMES)
       /\ model.width = Len(CLASS_NAMES)
       /\ model.params = checkpoint.steps
  /\ spc # "ready" =>
       /\ lastStatus.status = "none"
       /\ \A c \in Requests : rpc[c] = "idle"
  /\ (spc \in {"ready", "crashed"} /\ checkpoint.width # Len(CLASS_NAMES)) =>
       (spc = "crashed" /\ model = NoModel)

\* C4 witness: a checkpoint whose width differs from the registry length stopped the
\* start-up
C4_Witness ==
  /\ spc = "crashed"
  /\ checkpoint # NoFile
  /\ checkpoint.width # Len(CLASS_NAMES)

\* C5: a checkpoint written by the training script and loaded by a server has the
\* registry's width, and every class index the trainer used carries the same label in
\* the server's registry.
C5_LabelIndexConsistency ==
  (spc = "ready" /\ model.origin = "trainer") =>
    /\ model.width = Len(CLASS_NAMES)
    /\ \A i \in 1..Len(model.trainedClasses) :
         i <= Len(CLASS_NAMES) /\ CLASS_NAMES[i] = model.trainedClasses[i]

\* C6: every top_predictions entry of main.py carries a registry label, and the first
\* entry is the arg-max label with the arg-max probability, whatever the gate did.
C6_TopListIndependentOfGate ==
  \A c \in Requests :
    MainAnswered(c) =>
      LET tp == resp[c].body.top_predictions
          top == MaxProb(rimg[c])
      IN  /\ \A j \in 1..Len(tp) : \E i \in 1..Len(CLASS_NAMES) : tp[j].class = CLASS_NAMES[i]
          /\ tp[1].confidence = top
          /\ tp[1].class = CLASS_NAMES[FirstIndexOf(rimg[c], top)]

\* C7: top_predictions has min(3, N) entries of distinct classes, in descending order of
\* confidence with equal probabilities in ascending class index, and no class left out
\* has a higher probability than a class in the list.
C7_TopKRanking ==
  \A c \in Requests :
    MainAnswered(c) =>
      LET tp == resp[c].body.top_predictions
          p == rimg[c]
          idx == [j \in 1..Len(tp) |-> IndexOfLabel(tp[j].class)]
      IN  /\ Len(tp) = Min(3, Len(p))
          /\ \A j, k \in 1..Len(tp) : j # k => idx[j] # idx[k]
          /\ \A j \in 1..Len(tp) : tp[j].confidence = p[idx[j]]
          /\ \A j \in 1..(Len(tp) - 1) :
               \/ tp[j].confidence > tp[j + 1].confidence
               \/ tp[j].confidence = tp[j + 1].confidence /\ idx[j] < idx[j + 1]
          /\ \A i \in 1..Len(p) :
               (\A j \in 1..Len(tp) : idx[j] # i) =>
                 \A j \in 1..Len(tp) : p[i] <= tp[j].confidence

\* the part of C7 that does not depend on the order of equal values
TopKRankingUpToTies ==
  \A c \in Requests :
    MainAnswered(c) =>
      LET tp == resp[c].body.top_predictions
          p == rimg[c]
          idx == [j \in 1..Len(tp) |-> IndexOfLabel(tp[j].class)]
      IN  /\ Len(tp) = Min(3, Len(p))
          /\ \A j, k \in 1..Len(tp) : j # k => idx[j] # idx[k]
          /\ \A j \in 1..(Len(tp) - 1) : tp[j].confidence >= tp[j + 1].confidence
          /\ \A i \in 1..Len(p) :
               (\A j \in 1..Len(tp) : idx[j] # i) =>
                 \A j \in 1..Len(tp) : p[i] <= tp[j].confidence

\* C8 (states): the model stays as loaded, and every answer is the one the handler gives
\* to that image alone, so equal images get equal answers up to the timestamp.
InferenceAsAlone ==
  /\ spc = "ready" =>
       /\ model.evalMode
       /\ model.params = checkpoint.steps
       /\ model.width = Len(CLASS_NAMES)
  /\ \A c \in Requests :
       (rpc[c] = "done" /\ rimg[c] # BadImage) =>
         resp[c] = Answer(c, rimg[c], rimg[c], resp[c].body.timestamp)
  /\ \A c, d \in Requests :
       (rpc[c] = "done" /\ rpc[d] = "done" /\ rimg[c] = rimg[d] /\ rimg[c] # BadImage) =>
         /\ resp[c].body.prediction = resp[d].body.prediction
         /\ resp[c].body.confidence = resp[d].body.confidence
         /\ server = "main" =>
              resp[c].body.top_predictions = resp[d].body.top_predictions

\* C8 (steps): no request step changes the parameters, the mode or the registry
InferenceReadOnly ==
  spc = "ready" => (model' = model /\ CLASS_NAMES' = CLASS_NAMES /\ checkpoint' = checkpoint)

\* C8: inference is read-only and independent of the interleaving of the calls.
C8_ReadOnlyOrderIndependent == []InferenceAsAlone /\ [][InferenceReadOnly]_vars

\* C8 witness: two calls with the same image, both in flight, answered one after the
\* other with the same prediction list
C8_Witness ==
  \E c, d \in Requests :
    /\ c # d
    /\ server = "main"
    /\ rpc[c] = "done" /\ rpc[d] = "done"
    /\ rimg[c] = rimg[d] /\ rimg[c] # BadImage
    /\ resp[c].body.timestamp # resp[d].body.timestamp
    /\ resp[c].body.top_predictions = resp[d].body.top_predictions

\* the shape of a training run that no library call aborts
TrainShape ==
  /\ tparams = epoch * NumBatches + (IF tpc \in {"epoch_begin", "save", "done"} THEN 0 ELSE batch)
  /\ tpc = "step" => grad = {<<epoch, batch, tparams>>}
  /\ tpc \in {"loss", "backward"} => outputs = tparams
  /\ tpc = "backward" => loss = tparams
  /\ tpc = "epoch_end" => (batch = NumBatches /\ total = nImages)
  /\ tparams > 0 => applied = {<<(tparams - 1) \div NumBatches, (tparams - 1) % NumBatches,
                                tparams - 1>>}
  /\ saves = (IF tpc = "done" THEN 1 ELSE 0)
  /\ tpc = "done" =>
       /\ epoch = NUM_EPOCHS
       /\ tparams = NUM_EPOCHS * NumBatches
       /\ checkpoint.origin = "trainer" /\ checkpoint.steps = tparams
  /\ tpc \notin {"start", "done", "crashed"} => ENABLED TrainNext

\* C9: on a non-empty dataset a run makes exactly NUM_EPOCHS passes and ends; each batch
\* is processed once, in order, with zero-grad, forward, loss, backward and one
\* optimizer step; the checkpoint is written once, after the last step, with the
\* parameters of that step.
C9_TrainingRunShape ==
  /\ nImages > 0 => tpc # "crashed"
  /\ TrainShape

\* C10: in main.py the rounded confidence is below 0.65 whenever the prediction is
\* "uncertain" and at least 0.65 whenever it is a class label.
C10_RoundedConfidenceMatchesGate ==
  \A c \in Requests :
    MainAnswered(c) =>
      IF resp[c].body.prediction = "uncertain"
      THEN resp[c].body.confidence < ThresholdAsReported
      ELSE resp[c].body.confidence >= ThresholdAsReported

\* C10 amended: the rounded confidence is at most 0.65 whenever the prediction is
\* "uncertain", reaching 0.65 only for a top probability in [0.64995, 0.65), and at
\* least 0.65 whenever it is a class label.
C10_RoundedConfidenceAtMostThreshold ==
  \A c \in Requests :
    MainAnswered(c) =>
      IF resp[c].body.prediction = "uncertain"
      THEN /\ resp[c].body.confidence <= ThresholdAsReported
           /\ resp[c].body.confidence = ThresholdAsReported =>
                MaxProb(rimg[c]) \in (confidence_threshold - 5)..(confidence_threshold - 1)
      ELSE resp[c].body.confidence >= ThresholdAsReported

\* C10 witness: "uncertain" reported together with a confidence of 0.65
C10_Witness ==
  \E c \in Requests :
    /\ MainAnswered(c)
    /\ resp[c].body.prediction = "uncertain"
    /\ resp[c].body.confidence = ThresholdAsReported
====
